---------------------------- MODULE Spec2Model ----------------------------
(***************************************************************************)
(* RetailInsight forecasting backend.                                      *)
(*                                                                         *)
(*   src/backend/model/predictor.py  forecast_product  (serving path)      *)
(*   src/backend/model/matpfn.py     MATPFNModel.simple_forecast (alt.)    *)
(*   src/backend/app.py              predict_product   (HTTP endpoint)     *)
(*                                                                         *)
(* Numbers.  Observed quantities are integer counts.  A float of the code  *)
(* is a fixed-point integer in units of 1/Scale (RDiv rounds to nearest).  *)
(* The least-squares line of np.polyfit is kept as an exact rational       *)
(* (numerators over one denominator) and rounded once, where it enters a   *)
(* fused value.  A date is a day number; its weekday is date % 7.          *)
(***************************************************************************)
EXTENDS Integers, Sequences, FiniteSets, TLC

VARIABLES df,            \* predictor.py:8   the merged dataset, rows per product
          PRODUCT_LIST,  \* app.py:30        ids the endpoint accepts
          calls          \* one record per invocation slot

vars == <<df, PRODUCT_LIST, calls>>

(*************************** bounds and constants **************************)
Scale        == 1000  \* fixed-point resolution
MaxHorizon   == 32    \* the long horizon
ShortHorizon == 2     \* the short horizons 0..ShortHorizon
BaseQty      == 7     \* base quantity of the generated histories
MaxAmp       == 2     \* largest slope / amplitude of the generated histories

MinHistory   == 30    \* predictor.py:49
SeedLen      == 30    \* predictor.py:54
WindowCap    == 30    \* predictor.py:109
LevelWindow  == 7     \* predictor.py:81
TrendWindow  == 90    \* predictor.py:61
HistoryTail  == 120   \* predictor.py:114
WLevel       == 4     \* predictor.py:70   0.4
WTrend       == 4     \* predictor.py:71   0.4
WSeason      == 2     \* predictor.py:72   0.2
WeightDen    == 10    \* weights are tenths
DegradedMin  == 5     \* matpfn.py:38
AltLevelWindow == 7   \* matpfn.py:61
AltWTrend    == 5     \* matpfn.py:90     0.5
AltWLevel    == 3     \* matpfn.py:91     0.3
AltWLast     == 2     \* matpfn.py:92     0.2
ClampK       == 3     \* matpfn.py:97
DaysPerWeek  == 7     \* dt.dayofweek
NaT          == -1    \* pd.to_datetime(errors="coerce") of an unparsable date
BadDate      == -2    \* an unparsable raw date of a caller's frame

ProductIds == {"p1", "p2", "p3"}
Slots      == {"c1", "c2"}

(******************************* arithmetic ********************************)
Abs(x) == IF x < 0 THEN -x ELSE x
Max(a, b) == IF a >= b THEN a ELSE b
Min(a, b) == IF a <= b THEN a ELSE b

\* a / b rounded to the nearest integer (b > 0)
RDiv(a, b) == (2 * a + b) \div (2 * b)

RECURSIVE MulDiv(_, _, _)
\* r * m = q * den + rem with 0 <= rem < den (0 <= r < den, m >= 0), by
\* halving m so that no intermediate product leaves the integer range
MulDiv(r, m, den) ==
    IF m = 0 THEN [q |-> 0, rem |-> 0]
    ELSE LET h == MulDiv(r, m \div 2, den)
             t == 2 * h.rem + (m % 2) * r
         IN  [q |-> 2 * h.q + t \div den, rem |-> t % den]

\* the rational num / den as fixed point (den > 0), to the nearest unit
ToFx(num, den) ==
    LET f == MulDiv(num % den, Scale, den)
    IN  (num \div den) * Scale + f.q + (IF 2 * f.rem >= den THEN 1 ELSE 0)

RECURSIVE SumRange(_, _, _)
\* f[lo] + ... + f[hi], by halves
SumRange(f, lo, hi) ==
    IF lo > hi THEN 0
    ELSE IF lo = hi THEN f[lo]
    ELSE LET mid == (lo + hi) \div 2
         IN  SumRange(f, lo, mid) + SumRange(f, mid + 1, hi)

\* f[1] + ... + f[k]
SumFn(f, k) == SumRange(f, 1, k)

\* sum(s)
SumSeq(s) == SumRange(s, 1, Len(s))

\* s[-k:]
LastK(s, k) == IF Len(s) <= k THEN s ELSE SubSeq(s, Len(s) - k + 1, Len(s))

\* float(np.mean(s)) of fixed-point values
MeanFx(s) == RDiv(SumSeq(s), Len(s))

RECURSIVE ISqrtIn(_, _, _)
ISqrtIn(x, lo, hi) ==
    IF lo >= hi THEN lo
    ELSE LET mid == (lo + hi + 1) \div 2
         IN  IF mid * mid <= x THEN ISqrtIn(x, mid, hi) ELSE ISqrtIn(x, lo, mid - 1)
\* floor of the square root of x >= 0
ISqrt(x) == ISqrtIn(x, 0, Min(x, 46340))

Qtys(rows)  == [i \in 1..Len(rows) |-> rows[i].qty]
Dates(rows) == [i \in 1..Len(rows) |-> rows[i].date]
DayOfWeek(date) == date % DaysPerWeek


(**************************** frames and sorting ***************************)
\* the place of row i in date order, rows of one date in their given order
RankByDate(rows, i) ==
    Cardinality({j \in 1..Len(rows) :
                    \/ rows[j].date < rows[i].date
                    \/ (rows[j].date = rows[i].date /\ j <= i)})

\* DataFrame.sort_values("date"): ascending, rows of one date keep their order
SortByDate(rows) ==
    IF \A i \in 1..(Len(rows) - 1) : rows[i].date <= rows[i + 1].date
    THEN rows
    ELSE [p \in 1..Len(rows) |->
             rows[CHOOSE i \in 1..Len(rows) : RankByDate(rows, i) = p]]

\* max(s), min(s) of a non-empty sequence
MaxOf(s) == CHOOSE x \in {s[i] : i \in 1..Len(s)} : \A i \in 1..Len(s) : s[i] <= x
MinOf(s) == CHOOSE x \in {s[i] : i \in 1..Len(s)} : \A i \in 1..Len(s) : s[i] >= x

\* df[df["product_id"] == product_id].copy().sort_values("date")
SelectProduct(d, pid) == SortByDate(d[pid])

(************************ predictor.py: the estimators *********************)
\* the cap left out: the line is fitted to the whole series
FitWindowWhole(n, max_window) == n

\* window = min(n, max_window)
FitWindow(n, max_window) == Min(n, max_window)

\* _compute_trend: the line through the last min(n, max_window) values at
\* x = 0..window-1, as [slope_num, level_num] over den; level is the fitted
\* value at the last index, b + a * (window - 1)
ComputeTrend(values, max_window) ==
    LET n == Len(values)
    IN  IF n < 2
        THEN [slope_num |-> 0, level_num |-> values[n], den |-> 1]
        ELSE LET window == FitWindow(n, max_window)
                 y   == LastK(values, window)
                 Sx  == SumFn([i \in 1..window |-> i - 1], window)
                 Sxx == SumFn([i \in 1..window |-> (i - 1) * (i - 1)], window)
                 Sy  == SumFn(y, window)
                 Sxy == SumFn([i \in 1..window |-> (i - 1) * y[i]], window)
                 a_num == window * Sxy - Sx * Sy
                 b_num == Sy * Sxx - Sx * Sxy
             IN  [slope_num |-> a_num,
                  level_num |-> b_num + a_num * (window - 1),
                  den       |-> window * Sxx - Sx * Sx]

\* the quantities of the rows whose date falls on weekday d
OnDow(rows, d) == SelectSeq(rows, LAMBDA r : DayOfWeek(r.date) = d)

\* _compute_seasonality_by_dow: mean quantity per weekday that occurs
ComputeSeasonalityByDow(rows) ==
    [d \in {DayOfWeek(rows[i].date) : i \in 1..Len(rows)} |->
        ToFx(SumSeq(Qtys(OnDow(rows, d))), Len(OnDow(rows, d)))]

\* float(np.mean(qty))
OverallMean(qty) == ToFx(SumSeq(qty), Len(qty))

\* the fallback left out: a weekday never observed contributes nothing
SeasonOfNoFallback(dow_means, dow, overall_mean) ==
    IF dow \in DOMAIN dow_means THEN dow_means[dow] ELSE 0

\* dow_means.get(dow, overall_mean)
SeasonOf(dow_means, dow, overall_mean) ==
    IF dow \in DOMAIN dow_means THEN dow_means[dow] ELSE overall_mean

\* the level taken over the whole window instead of its last 7 entries
LevelWholeWindow(window_values) == MeanFx(window_values)

\* level: mean of the last 7 window values (or of all if fewer)
LevelComponent(window_values) ==
    IF Len(window_values) >= LevelWindow
    THEN MeanFx(LastK(window_values, LevelWindow))
    ELSE MeanFx(window_values)

\* last_trend_level + slope * step
TrendComponent(trend, step) == ToFx(trend.level_num + trend.slope_num * step, trend.den)

\* the seasonal weight taken as 0.3: the weights no longer sum to 1
FuseHeavySeason(level, trnd, season) ==
    RDiv(WLevel * level + WTrend * trnd + (WSeason + 1) * season, WeightDen)

\* w_level * level + w_trend * trend + w_season * season
Fuse(level, trnd, season) ==
    RDiv(WLevel * level + WTrend * trnd + WSeason * season, WeightDen)

\* the floor left out
Floor0Missing(y_hat) == y_hat

\* max(0.0, float(y_hat))
Floor0(y_hat) == Max(0, y_hat)

\* the eviction left out: the window grows with every prediction
PushWindowNoEvict(window_values, y_hat) == Append(window_values, y_hat)

\* window_values.append(y_hat); pop(0) beyond 30
PushWindow(window_values, y_hat) ==
    LET w == Append(window_values, y_hat)
    IN  IF Len(w) > WindowCap THEN Tail(w) ELSE w


(************************* matpfn.py: the estimators ***********************)
\* pd.to_datetime(df["date"], errors="coerce")
CoerceDates(rows) ==
    [i \in 1..Len(rows) |->
        [rows[i] EXCEPT !.date = IF rows[i].date = BadDate THEN NaT ELSE rows[i].date]]

\* df.dropna(subset=["date"])
DropNaT(rows) == SelectSeq(rows, LAMBDA r : r.date # NaT)

\* np.polyfit(t, y, 1) with t the days since the first date; slope 0 and the
\* mean of y when every t is the same; [slope_num, icpt_num] over den
AltTrend(rows) ==
    LET n   == Len(rows)
        t0  == MinOf(Dates(rows))
        t   == [i \in 1..n |-> rows[i].date - t0]
        y   == Qtys(rows)
        St  == SumFn(t, n)
        Stt == SumFn([i \in 1..n |-> t[i] * t[i]], n)
        Sy  == SumFn(y, n)
        Sty == SumFn([i \in 1..n |-> t[i] * y[i]], n)
    IN  IF \A i \in 1..n : t[i] = t[1]
        THEN [slope_num |-> 0, icpt_num |-> Sy, den |-> n]
        ELSE [slope_num |-> n * Sty - St * Sy,
              icpt_num  |-> Sy * Stt - St * Sty,
              den       |-> n * Stt - St * St]

\* df["quantity_sold"].std() (sample, ddof = 1) if len(df) > 1 else 0.0
Volatility(qty) ==
    LET n  == Len(qty)
        Sy == SumSeq(qty)
        Syy == SumFn([i \in 1..n |-> qty[i] * qty[i]], n)
    IN  IF n > 1 THEN ISqrt(ToFx(n * Syy - Sy * Sy, n * (n - 1)) * Scale) ELSE 0

\* trend_slope * t_future + trend_intercept
AltTrendPred(trend, t_future) ==
    ToFx(trend.icpt_num + trend.slope_num * t_future, trend.den)

\* the weights taken in the order level, trend, seasonality: 0.5 on the
\* level, 0.3 on the trend, 0.2 on the seasonal term
AltFuseLevelFirst(trend_pred, level_pred, seasonal_adj, last_val) ==
    RDiv(AltWTrend * level_pred + AltWLevel * trend_pred + AltWLast * seasonal_adj,
         WeightDen)

\* 0.5 * trend_pred + 0.3 * (level_pred + seasonal_adj) + 0.2 * last_val
AltFuse(trend_pred, level_pred, seasonal_adj, last_val) ==
    RDiv(AltWTrend * trend_pred + AltWLevel * (level_pred + seasonal_adj)
           + AltWLast * last_val, WeightDen)

\* if vol > 0: fused = max(lower, min(upper, fused))
Clamp(fused, global_mean, vol) ==
    IF vol > 0
    THEN Max(global_mean - ClampK * vol, Min(global_mean + ClampK * vol, fused))
    ELSE fused

\* int(round(fused)): to the nearest integer, a tie to the even one
RoundInt(fx) ==
    LET q == fx \div Scale
        r == fx % Scale
    IN  IF 2 * r < Scale THEN q
        ELSE IF 2 * r > Scale THEN q + 1
        ELSE IF q % 2 = 0 THEN q ELSE q + 1

\* max(0, int(round(fused)))
AltFloor0(fused) == Max(0, RoundInt(fused))

(***************************** generated inputs ****************************)
StartDay == 3   \* day number of the first observation

Kinds == {"const", "ramp", "rampdown", "stepdown", "weekly", "closed"}

GenQty(kind, n, a, b, i) ==
    CASE kind = "const"    -> a
      [] kind = "ramp"     -> b * (i - 1)
      [] kind = "rampdown" -> b * (n - i)
      [] kind = "stepdown" -> IF 2 * i <= n THEN a ELSE 0
      [] kind = "weekly"   -> a + (IF i % DaysPerWeek = 0 THEN b ELSE 0)
      [] kind = "long"     -> IF i = 1 THEN a + b
                              ELSE i \div DaysPerWeek + b * (i % 2)
      [] OTHER             -> a + b * (i % 2)

\* consecutive days; "closed": no observation on weekday 6
GenDate(kind, i) ==
    IF kind = "closed"
    THEN (StartDay \div DaysPerWeek) * DaysPerWeek + DaysPerWeek
           + (i - 1) + (i - 1) \div (DaysPerWeek - 1)
    ELSE StartDay + i - 1

Gen(kind, n, a, b) ==
    [i \in 1..n |-> [date |-> GenDate(kind, i), qty |-> GenQty(kind, n, a, b, i)]]

Lens == {1, MinHistory - 1, MinHistory, MinHistory + 1}

Histories ==
    {Gen(k, n, a, b) : k \in Kinds, n \in Lens, a \in {0, BaseQty}, b \in 1..MaxAmp}

\* more rows than the trend window holds, the first row an outlier
LongHistories == {Gen("long", TrendWindow + 1, BaseQty, MaxAmp)}

SecondHistories ==
    {Gen("rampdown", MinHistory, BaseQty, 1), Gen("const", DegradedMin - 2, BaseQty, 1)}

Reverse(s) == [i \in 1..Len(s) |-> s[Len(s) + 1 - i]]

Transforms ==
    {"asis", "reversed", "short", "min", "badfirst", "allbad", "empty", "sameday"}

\* the frame a caller of simple_forecast builds from one product's rows
Frame(tr, rows) ==
    CASE tr = "asis"     -> rows
      [] tr = "reversed" -> Reverse(rows)
      [] tr = "short"    -> Reverse(LastK(rows, DegradedMin - 1))
      [] tr = "min"      -> LastK(rows, DegradedMin)
      [] tr = "badfirst" -> [i \in 1..Len(rows) |->
                               IF i = 1 THEN [rows[i] EXCEPT !.date = BadDate] ELSE rows[i]]
      [] tr = "allbad"   -> [i \in 1..Len(rows) |-> [rows[i] EXCEPT !.date = BadDate]]
      [] tr = "sameday"  -> [i \in 1..Len(LastK(rows, DegradedMin + 1)) |->
                               [LastK(rows, DegradedMin + 1)[i] EXCEPT
                                   !.date = LastK(rows, DegradedMin + 1)[1].date]]
      [] OTHER           -> <<>>

Horizons      == 0..ShortHorizon \cup {MaxHorizon}
ShortHorizons == 0..ShortHorizon


(****************************** invocations ********************************)
NoEst == [kind |-> "none"]

Idle ==
    [pc |-> "idle", path |-> "none", via |-> "none", pid |-> "none", tr |-> "none",
     horizon |-> 0, pdf |-> <<>>, df_p |-> <<>>, est |-> NoEst, step |-> 0,
     window_values |-> <<>>, future_values |-> <<>>, future_dates |-> <<>>,
     fused |-> <<>>, comps |-> <<>>, error |-> "", history |-> <<>>, status |-> 0,
     invoked |-> 0, responses |-> 0]

Init ==
    /\ \E h1 \in Histories \cup LongHistories, h2 \in SecondHistories :
          df = [p \in ProductIds |-> IF p = "p1" THEN h1 ELSE IF p = "p2" THEN h2 ELSE <<>>]
    /\ PRODUCT_LIST = {p \in ProductIds : df[p] # <<>>}
    /\ calls = [c \in Slots |-> Idle]

\* app.py:56-66  predict_product up to its call of forecast_product
PredictProduct(c, pid, h) ==
    /\ calls[c].pc = "idle"
    /\ IF pid \notin PRODUCT_LIST
       THEN calls' = [calls EXCEPT ![c] =
                [Idle EXCEPT !.pc = "responded", !.via = "api", !.pid = pid,
                             !.horizon = h, !.status = 404,
                             !.error = "Unknown product_id", !.responses = 1]]
       ELSE calls' = [calls EXCEPT ![c] =
                [Idle EXCEPT !.pc = "called", !.path = "serving", !.via = "api",
                             !.pid = pid, !.horizon = h, !.invoked = 1]]
    /\ UNCHANGED <<df, PRODUCT_LIST>>

\* predictor.py:35  forecast_product called by another caller
ForecastProduct(c, pid, h) ==
    /\ calls[c].pc = "idle"
    /\ calls' = [calls EXCEPT ![c] =
            [Idle EXCEPT !.pc = "called", !.path = "serving", !.via = "direct",
                         !.pid = pid, !.horizon = h, !.invoked = 1]]
    /\ UNCHANGED <<df, PRODUCT_LIST>>

\* matpfn.py:20  simple_forecast called with the caller's frame
SimpleForecast(c, pid, tr, h) ==
    /\ calls[c].pc = "idle"
    /\ calls' = [calls EXCEPT ![c] =
            [Idle EXCEPT !.pc = "called", !.path = "alt", !.via = "direct",
                         !.pid = pid, !.tr = tr, !.horizon = h,
                         !.pdf = Frame(tr, df[pid]), !.invoked = 1]]
    /\ UNCHANGED <<df, PRODUCT_LIST>>

\* the length check off by one
TooShortOffByOne(df_p) == Len(df_p) < MinHistory - 1

\* predictor.py:49  len(df_p) < 30
TooShort(df_p) == Len(df_p) < MinHistory

\* the loop entered once more than the horizon asks
LoopContinuesOnceMore(call) == call.step <= call.horizon

\* predictor.py:76, matpfn.py:72  for step in range(1, horizon + 1)
LoopContinues(call) == call.step < call.horizon

\* predictor.py:44  the dataset after the selection (a copy is filtered and sorted)
DatasetAfterSelect(d, pid) == d

\* a window kept at module level and never reset: seeded with what a
\* call left behind
SeedWindowShared(qty) ==
    IF \E c \in Slots : calls[c].window_values # <<>>
    THEN calls[CHOOSE c \in Slots : calls[c].window_values # <<>>].window_values
    ELSE [i \in 1..Len(LastK(qty, SeedLen)) |-> LastK(qty, SeedLen)[i] * Scale]

\* predictor.py:54, 64  window_values = qty[-30:].copy()
SeedWindow(qty) == [i \in 1..Len(LastK(qty, SeedLen)) |-> LastK(qty, SeedLen)[i] * Scale]

\* predictor.py:52-74  the state before the loop
Initialized(call, df_p) ==
    LET qty == Qtys(df_p)
    IN  [call EXCEPT
           !.pc = "initialized",
           !.df_p = df_p,
           !.est = [kind         |-> "serving",
                    trend        |-> ComputeTrend(qty, TrendWindow),
                    dow_means    |-> ComputeSeasonalityByDow(df_p),
                    overall_mean |-> OverallMean(qty),
                    last_date    |-> MaxOf(Dates(df_p)),
                    n_past       |-> Len(qty)],
           !.window_values = SeedWindow(qty)]

\* predictor.py:44-74  forecast_product up to the loop
Validate(c) ==
    /\ calls[c].pc = "called"
    /\ calls[c].path = "serving"
    /\ LET df_p == SelectProduct(df, calls[c].pid)
       IN  calls' = [calls EXCEPT ![c] =
             IF df_p = <<>>
             THEN [@ EXCEPT !.pc = "error", !.error = "No sales data for this product."]
             ELSE IF TooShort(df_p)
             THEN [@ EXCEPT !.pc = "error", !.df_p = df_p,
                            !.error = "Not enough history (<30 days) for this product."]
             ELSE Initialized(@, df_p)]
    /\ df' = DatasetAfterSelect(df, calls[c].pid)
    /\ UNCHANGED PRODUCT_LIST

\* predictor.py:76-92  the three components at the step after call.step
Components(call) ==
    LET step == call.step + 1
        dow  == DayOfWeek(call.est.last_date + step)
    IN  [level  |-> LevelComponent(call.window_values),
         trend  |-> TrendComponent(call.est.trend, step),
         season |-> SeasonOf(call.est.dow_means, dow, call.est.overall_mean)]

\* predictor.py:95-99  y_hat before the floor, at the step after call.step
YHat(call) ==
    LET k == Components(call)
    IN  Fuse(k.level, k.trend, k.season)

\* predictor.py:76-110  one iteration of the loop
Step(c) ==
    /\ calls[c].pc \in {"initialized", "stepping"}
    /\ calls[c].path = "serving"
    /\ LoopContinues(calls[c])
    /\ LET call  == calls[c]
           y_raw == YHat(call)
           y_hat == Floor0(y_raw)
       IN  calls' = [calls EXCEPT ![c] =
             [@ EXCEPT !.pc = "stepping",
                       !.step = @ + 1,
                       !.fused = Append(@, y_raw),
                       !.comps = Append(@, Components(call)),
                       !.future_values = Append(@, y_hat),
                       !.future_dates = Append(@, call.est.last_date + call.step + 1),
                       !.window_values = PushWindow(@, y_hat)]]
    /\ UNCHANGED <<df, PRODUCT_LIST>>

\* predictor.py:112-124  the loop is exhausted; the result is returned
Return(c) ==
    /\ calls[c].pc \in {"initialized", "stepping"}
    /\ calls[c].path = "serving"
    /\ ~LoopContinues(calls[c])
    /\ calls' = [calls EXCEPT ![c] =
          [@ EXCEPT !.pc = "done", !.history = LastK(calls[c].df_p, HistoryTail)]]
    /\ UNCHANGED <<df, PRODUCT_LIST>>

\* the engine's error result passed on as a forecast
EngineFailedIgnored(call) == FALSE

\* app.py:68  "error" in result
EngineFailed(call) == call.pc = "error"

\* app.py:68-71  predict_product answers with the engine's result
Respond(c) ==
    /\ calls[c].via = "api"
    /\ calls[c].pc \in {"done", "error"}
    /\ calls' = [calls EXCEPT ![c] =
          [@ EXCEPT !.pc = "responded",
                    !.status = IF EngineFailed(calls[c]) THEN 500 ELSE 200,
                    !.responses = @ + 1]]
    /\ UNCHANGED <<df, PRODUCT_LIST>>

\* the caller has its answer; the slot takes the next invocation
Reset(c) ==
    /\ calls[c].pc \in (IF calls[c].via = "api" THEN {"responded"}
                        ELSE {"done", "error", "raised"})
    /\ calls' = [calls EXCEPT ![c] = Idle]
    /\ UNCHANGED <<df, PRODUCT_LIST>>


\* the copy left out: the dates are coerced in the caller's own frame
CallerFrameNoCopy(pdf) == CoerceDates(pdf)

\* matpfn.py:27  the caller's frame after df = pdf.copy() and the writes to df
CallerFrameAfter(pdf) == pdf

\* matpfn.py:38  len(df) < 5
Degraded(rows) == Len(rows) < DegradedMin

\* the first row taken for the last
FirstVal(rows) == rows[1].qty

\* matpfn.py:40, 63  df["quantity_sold"].iloc[-1]
LastVal(rows) == rows[Len(rows)].qty

\* matpfn.py:41  [last_val] * horizon
Repeat(v, h) == [i \in 1..h |-> v]

\* matpfn.py:43-68  the state before the loop
AltInitialized(call, rows) ==
    LET qty == Qtys(rows)
    IN  [call EXCEPT
           !.pc = "initialized",
           !.df_p = rows,
           !.est = [kind        |-> "alt",
                    trend       |-> AltTrend(rows),
                    dow_means   |-> ComputeSeasonalityByDow(rows),
                    global_mean |-> OverallMean(qty),
                    level_mean  |-> MeanFx([i \in 1..Min(AltLevelWindow, Len(qty)) |->
                                      LastK(qty, Min(AltLevelWindow, Len(qty)))[i] * Scale]),
                    last_val    |-> LastVal(rows) * Scale,
                    vol         |-> Volatility(qty),
                    last_date   |-> rows[Len(rows)].date,
                    min_date    |-> MinOf(Dates(rows))]]

\* matpfn.py:27-68  simple_forecast up to the loop
ValidateAlt(c) ==
    /\ calls[c].pc = "called"
    /\ calls[c].path = "alt"
    /\ LET call == calls[c]
           rows == SortByDate(DropNaT(CoerceDates(call.pdf)))
       IN  calls' = [calls EXCEPT ![c] =
             IF call.pdf = <<>>
             THEN [@ EXCEPT !.pc = "done", !.pdf = CallerFrameAfter(call.pdf)]
             ELSE IF Degraded(rows)
             THEN IF rows = <<>>
                  THEN [@ EXCEPT !.pc = "raised", !.error = "IndexError",
                                 !.pdf = CallerFrameAfter(call.pdf)]
                  ELSE [@ EXCEPT !.pc = "done", !.df_p = rows,
                                 !.pdf = CallerFrameAfter(call.pdf),
                                 !.future_values = Repeat(LastVal(rows), call.horizon)]
             ELSE [AltInitialized(@, rows) EXCEPT !.pdf = CallerFrameAfter(call.pdf)]]
    /\ UNCHANGED <<df, PRODUCT_LIST>>

\* matpfn.py:73-93  the components at the step after call.step and their
\* fusion before the clip
AltComponents(call) ==
    LET i        == call.step + 1
        est      == call.est
        future_date == est.last_date + i
        t_future == future_date - est.min_date
        dow_mean == SeasonOf(est.dow_means, DayOfWeek(future_date), est.global_mean)
        trend_pred   == AltTrendPred(est.trend, t_future)
        seasonal_adj == dow_mean - est.global_mean
    IN  [trend_pred   |-> trend_pred,
         level_pred   |-> est.level_mean,
         dow_mean     |-> dow_mean,
         seasonal_adj |-> seasonal_adj,
         last_val     |-> est.last_val,
         raw          |-> AltFuse(trend_pred, est.level_mean, seasonal_adj, est.last_val)]

\* matpfn.py:73-99  fused after the clip, at the step after call.step
AltFused(call) == Clamp(AltComponents(call).raw, call.est.global_mean, call.est.vol)

\* matpfn.py:72-101  one iteration of the loop
StepAlt(c) ==
    /\ calls[c].pc \in {"initialized", "stepping"}
    /\ calls[c].path = "alt"
    /\ LoopContinues(calls[c])
    /\ LET call  == calls[c]
           fused == AltFused(call)
       IN  calls' = [calls EXCEPT ![c] =
             [@ EXCEPT !.pc = "stepping",
                       !.step = @ + 1,
                       !.fused = Append(@, fused),
                       !.comps = Append(@, AltComponents(call)),
                       !.future_values = Append(@, AltFloor0(fused)),
                       !.future_dates = Append(@, call.est.last_date + call.step + 1)]]
    /\ UNCHANGED <<df, PRODUCT_LIST>>

\* matpfn.py:103  return forecast_vals
ReturnAlt(c) ==
    /\ calls[c].pc \in {"initialized", "stepping"}
    /\ calls[c].path = "alt"
    /\ ~LoopContinues(calls[c])
    /\ calls' = [calls EXCEPT ![c] = [@ EXCEPT !.pc = "done"]]
    /\ UNCHANGED <<df, PRODUCT_LIST>>

(***************************** specifications ******************************)
\* one invocation at a time, every entry point, the long horizon included
Next ==
    \/ \E pid \in ProductIds, h \in Horizons : PredictProduct("c1", pid, h)
    \/ \E pid \in ProductIds, h \in Horizons : ForecastProduct("c1", pid, h)
    \/ \E pid \in ProductIds, tr \in Transforms, h \in ShortHorizons :
          SimpleForecast("c1", pid, tr, h)
    \/ Validate("c1")
    \/ Step("c1")
    \/ Return("c1")
    \/ Respond("c1")
    \/ ValidateAlt("c1")
    \/ StepAlt("c1")
    \/ ReturnAlt("c1")
    \/ Reset("c1")

Spec == Init /\ [][Next]_vars


(********************************* claims **********************************)
Serving(c) == calls[c].path = "serving"
Alt(c)     == calls[c].path = "alt"
\* the loop of the call in slot c has run to its end
Looped(c)  == calls[c].est.kind # "none" /\ calls[c].pc \in {"done", "responded"}
IsConst(rows) == \A i \in 1..Len(rows) : rows[i].qty = rows[1].qty

\* C1: every forecast quantity the engine has produced, on either path and
\* at every step, is >= 0
C1_NonNegative ==
    \A c \in Slots : \A i \in 1..Len(calls[c].future_values) :
        calls[c].future_values[i] >= 0

\* a serving forecast whose fused value was negative at two successive steps
\* and was floored to 0 each time, the first 0 already in the level window
C1_Witness ==
    \E c \in Slots :
        /\ Serving(c) /\ Looped(c) /\ calls[c].step >= 2
        /\ calls[c].fused[1] < 0 /\ calls[c].fused[2] < 0
        /\ calls[c].future_values[1] = 0 /\ calls[c].future_values[2] = 0

\* grand mean and volatility of the full observed series of the call in slot c
GrandMean(c) == OverallMean(Qtys(calls[c].df_p))
VolOf(c)     == Volatility(Qtys(calls[c].df_p))

\* C2: with volatility > 0, every fused value before the floor lies within
\* [grand_mean - 3 * volatility, grand_mean + 3 * volatility], on either path
C2_FusedWithinBand ==
    \A c \in Slots :
        (calls[c].est.kind # "none" /\ VolOf(c) > 0) =>
            \A i \in 1..Len(calls[c].fused) :
                /\ calls[c].fused[i] >= GrandMean(c) - ClampK * VolOf(c)
                /\ calls[c].fused[i] <= GrandMean(c) + ClampK * VolOf(c)

\* the same on the alternate path alone, where the clip is in the code
C2_AltWithinBand ==
    \A c \in Slots :
        (Alt(c) /\ calls[c].est.kind # "none" /\ VolOf(c) > 0) =>
            \A i \in 1..Len(calls[c].fused) :
                /\ calls[c].fused[i] >= GrandMean(c) - ClampK * VolOf(c)
                /\ calls[c].fused[i] <= GrandMean(c) + ClampK * VolOf(c)

\* the shape of a call with a sufficient history, by its position
C3_Shape(c) ==
    LET call == calls[c]
    IN  call.est.kind # "none" =>
          /\ call.step <= call.horizon
          /\ Len(call.future_values) = call.step
          /\ Len(call.future_dates) = call.step
          /\ \A s \in 1..call.step : call.future_dates[s] = call.est.last_date + s
          /\ call.pc = "initialized" => call.step = 0
          /\ call.pc = "stepping" => call.step >= 1
          /\ call.pc \in {"done", "responded"} =>
                /\ call.step = call.horizon
                /\ Len(call.future_values) = call.horizon
                /\ call.error = ""

\* the order of the positions: INITIALIZED, then STEPPING once per step,
\* then DONE
C3_Order(c) ==
    LET pc == calls[c].pc
        nx == calls'[c].pc
    IN  /\ (pc = "initialized" /\ nx # pc) =>
              \/ nx = "stepping" /\ calls'[c].step = 1
              \/ nx = "done" /\ calls[c].horizon = 0
        /\ (pc = "stepping" /\ calls'[c] # calls[c]) =>
              \/ nx = "stepping" /\ calls'[c].step = calls[c].step + 1
              \/ nx = "done" /\ calls[c].step = calls[c].horizon
        /\ nx = "stepping" => pc \in {"initialized", "stepping"}
        /\ (nx = "done" /\ pc # "done" /\ calls'[c].est.kind # "none") =>
              pc \in {"initialized", "stepping"}

\* C3: a forecast on a sufficient history goes INITIALIZED -> STEPPING -> DONE,
\* ends after exactly horizon steps and returns exactly horizon values in step
\* order, step s dated last date + s; horizon 0 returns the empty forecast
C3_Terminates ==
    /\ [](\A c \in Slots : C3_Shape(c))
    /\ [][\A c \in Slots : C3_Order(c)]_vars

\* a serving forecast of the long horizon is done, and so is one of horizon 0
C3_Witness ==
    \E c \in Slots :
        /\ Serving(c) /\ calls[c].pc = "done" /\ calls[c].est.kind = "serving"
        /\ calls[c].horizon = MaxHorizon /\ Len(calls[c].future_values) = MaxHorizon

\* C4: a validated history of one repeated quantity q forecasts q on every day
\* of the horizon, on either path
C4_ConstantForecast ==
    \A c \in Slots :
        (calls[c].df_p # <<>> /\ IsConst(calls[c].df_p) /\ calls[c].pc # "error") =>
            \A i \in 1..Len(calls[c].future_values) :
                calls[c].future_values[i] =
                    IF Serving(c) THEN calls[c].df_p[1].qty * Scale
                    ELSE calls[c].df_p[1].qty

\* a serving forecast of a constant positive history over the long horizon
C4_Witness ==
    \E c \in Slots :
        /\ Serving(c) /\ Looped(c) /\ IsConst(calls[c].df_p)
        /\ calls[c].df_p[1].qty > 0 /\ calls[c].step = MaxHorizon
        /\ calls[c].future_values[MaxHorizon] = calls[c].df_p[1].qty * Scale

\* C5: on the serving path an entity with 1..29 observations gets the
\* insufficient-history error and no forecast point, whatever the horizon
C5_InsufficientHistory ==
    \A c \in Slots :
        (/\ Serving(c) /\ calls[c].pc # "called"
         /\ Len(df[calls[c].pid]) >= 1 /\ Len(df[calls[c].pid]) < MinHistory) =>
            /\ calls[c].pc \in {"error", "responded"}
            /\ calls[c].error = "Not enough history (<30 days) for this product."
            /\ calls[c].future_values = <<>>
            /\ calls[c].fused = <<>>
            /\ calls[c].step = 0
            /\ calls[c].est.kind = "none"

\* the error for an entity with 29 observations, asked for the long horizon
C5_Witness ==
    \E c \in Slots :
        /\ Serving(c) /\ calls[c].pc = "error" /\ calls[c].horizon = MaxHorizon
        /\ Len(df[calls[c].pid]) = MinHistory - 1


\* two invocations in flight at once, on the serving path
InitConc ==
    /\ \E h1 \in {h \in Histories : Len(h) = MinHistory}, h2 \in SecondHistories :
          df = [p \in ProductIds |-> IF p = "p1" THEN h1 ELSE IF p = "p2" THEN h2 ELSE <<>>]
    /\ PRODUCT_LIST = {p \in ProductIds : df[p] # <<>>}
    /\ calls = [c \in Slots |-> Idle]

NextConc ==
    \E c \in Slots :
        \/ \E pid \in ProductIds, h \in ShortHorizons : ForecastProduct(c, pid, h)
        \/ Validate(c)
        \/ Step(c)
        \/ Return(c)
        \/ Reset(c)

SpecConc == InitConc /\ [][NextConc]_vars

\* the rows of a caller's frame whose date parses
ValidRows(pdf) == SelectSeq(pdf, LAMBDA r : r.date # BadDate)

\* C6: under the degraded policy a frame with 1..4 valid observations yields
\* exactly horizon values, each the quantity of the latest-dated observation
C6_DegradedConstant ==
    \A c \in Slots :
        LET rows == ValidRows(calls[c].pdf)
        IN  (/\ Alt(c) /\ calls[c].pc # "called"
             /\ Len(rows) >= 1 /\ Len(rows) < DegradedMin) =>
                /\ calls[c].pc = "done"
                /\ calls[c].step = 0
                /\ \E i \in 1..Len(rows) :
                      /\ rows[i].date = MaxOf(Dates(rows))
                      /\ calls[c].future_values = Repeat(rows[i].qty, calls[c].horizon)

\* four observations handed over latest first, first and latest quantity
\* different, forecast over the longest short horizon
C6_Witness ==
    \E c \in Slots :
        /\ Alt(c) /\ calls[c].pc = "done" /\ calls[c].tr = "short"
        /\ Len(calls[c].pdf) = DegradedMin - 1
        /\ calls[c].pdf[1].qty # calls[c].pdf[Len(calls[c].pdf)].qty
        /\ calls[c].horizon = ShortHorizon
        /\ calls[c].future_values = Repeat(calls[c].pdf[1].qty, ShortHorizon)

\* the call in slot c was given no valid observation
NoObservation(c) ==
    \/ Serving(c) /\ df[calls[c].pid] = <<>>
    \/ Alt(c) /\ ValidRows(calls[c].pdf) = <<>>

\* C7: with zero valid observations the engine signals an error and produces
\* no forecast point, on either path
C7_EmptyHistorySignalled ==
    \A c \in Slots :
        (NoObservation(c) /\ calls[c].pc # "called") =>
            /\ calls[c].pc \in {"error", "raised", "responded"}
            /\ calls[c].error # ""
            /\ calls[c].future_values = <<>>

\* C8: the endpoint answers an unknown identifier with 404 without invoking
\* the engine, an engine error with 500 and the engine's message, a forecast
\* only when the engine's result holds no error, and answers once
C8_FailureSurfacedOnce ==
    \A c \in Slots :
        LET call == calls[c]
        IN  call.via = "api" =>
              /\ call.responses <= 1
              /\ (call.pc = "responded") = (call.responses = 1)
              /\ (call.pc = "responded") = (call.status # 0)
              /\ call.pid \notin PRODUCT_LIST =>
                    call.status = 404 /\ call.invoked = 0 /\ call.est.kind = "none"
              /\ call.status = 404 =>
                    call.pid \notin PRODUCT_LIST /\ call.error = "Unknown product_id"
              /\ call.status = 500 =>
                    /\ call.invoked = 1
                    /\ call.error \in {"No sales data for this product.",
                                       "Not enough history (<30 days) for this product."}
                    /\ call.future_values = <<>>
              /\ call.status = 200 =>
                    /\ call.invoked = 1 /\ call.error = ""
                    /\ Len(call.future_values) = call.horizon
              /\ (call.pc = "responded" /\ call.error # "") => call.status \in {404, 500}

\* the endpoint has answered 500 for an entity that is listed but short
C8_Witness ==
    \E c \in Slots :
        /\ calls[c].via = "api" /\ calls[c].status = 500
        /\ calls[c].pid \in PRODUCT_LIST
        /\ calls[c].error = "Not enough history (<30 days) for this product."

\* two serving calls for one entity agree on everything they have computed
C9_Agree(a, b) ==
    LET x == calls[a]
        y == calls[b]
    IN  (/\ Serving(a) /\ Serving(b) /\ x.pid = y.pid
         /\ x.pc # "called" /\ y.pc # "called") =>
            /\ x.error = y.error
            /\ x.est = y.est
            /\ \A i \in 1..Min(x.step, y.step) : x.future_values[i] = y.future_values[i]
            /\ x.step = y.step => x.window_values = y.window_values
            /\ (x.horizon = y.horizon /\ x.pc = "done" /\ y.pc = "done") =>
                  x.future_values = y.future_values /\ x.history = y.history

\* C9: invocations with the same entity history and horizon produce the same
\* output, run one after the other or interleaved, and a step of one
\* invocation leaves every other invocation's record as it was
C9_Deterministic ==
    /\ [](\A a, b \in Slots : C9_Agree(a, b))
    /\ [][\A a, b \in Slots : (a # b /\ calls'[a] # calls[a]) => calls'[b] = calls[b]]_vars

\* two calls for one entity in the loop at once, each one step in, while the
\* level windows hold a prediction
C9_Witness ==
    /\ Serving("c1") /\ Serving("c2")
    /\ calls["c1"].pid = calls["c2"].pid
    /\ calls["c1"].pc = "stepping" /\ calls["c2"].pc = "done"
    /\ calls["c1"].step = 1 /\ calls["c2"].step = ShortHorizon
    /\ calls["c2"].future_values[1] > 0

\* C10: no step changes the shared dataset or the frame a caller handed over
C10_HistoryUntouched ==
    [][/\ df' = df
       /\ \A c \in Slots :
             (calls[c].pc # "idle" /\ calls'[c].pc # "idle") =>
                 calls'[c].pdf = calls[c].pdf]_vars

\* a call on a frame with an unparsable date is done: its working copy lost
\* that row, the caller's frame still holds it
C10_Witness ==
    \E c \in Slots :
        /\ Alt(c) /\ calls[c].pc = "done" /\ calls[c].tr = "badfirst"
        /\ calls[c].pdf # <<>>
        /\ calls[c].pdf = Frame("badfirst", df[calls[c].pid])
        /\ calls[c].pdf[1].date = BadDate
        /\ Len(calls[c].df_p) = Len(calls[c].pdf) - 1
        /\ Len(calls[c].df_p) >= DegradedMin


StrictlyIncreasing(rows) ==
    \A i \in 1..(Len(rows) - 1) :
        /\ rows[i].qty < rows[i + 1].qty
        /\ rows[i].date < rows[i + 1].date

\* C11: for a strictly increasing history that passed the length check, the
\* first forecast value is not below the last observed quantity
C11_FirstNotBelowLast ==
    \A c \in Slots :
        (/\ Serving(c) /\ calls[c].est.kind = "serving"
         /\ StrictlyIncreasing(calls[c].df_p)
         /\ Len(calls[c].future_values) >= 1) =>
            calls[c].future_values[1] >= calls[c].df_p[Len(calls[c].df_p)].qty * Scale


\* the observed quantities of the history the call in slot c runs on, as
\* fixed point
Observed(c) == [i \in 1..Len(calls[c].df_p) |-> calls[c].df_p[i].qty * Scale]
\* the call in slot c passed the checks of forecast_product
InServingLoop(c) == Serving(c) /\ calls[c].est.kind = "serving"

\* C12: between steps the level window holds at most 30 entries; after step
\* s (s = 0 is the seed) it is the most recent max(0, 30 - s) observed
\* quantities followed by the most recent min(s, 30) predictions
C12_WindowFifo ==
    \A c \in Slots :
        InServingLoop(c) =>
            LET s == calls[c].step
                w == calls[c].window_values
            IN  /\ Len(w) <= WindowCap
                /\ Len(calls[c].future_values) = s
                /\ w = LastK(Observed(c), Max(0, WindowCap - s))
                         \o LastK(calls[c].future_values, Min(s, WindowCap))

\* more steps than the window holds: every observation and the earliest
\* prediction were evicted, and that prediction differs from the oldest kept
C12_Witness ==
    \E c \in Slots :
        /\ InServingLoop(c)
        /\ calls[c].step > WindowCap
        /\ Len(calls[c].window_values) = WindowCap
        /\ calls[c].window_values[1] = calls[c].future_values[calls[c].step - WindowCap + 1]
        /\ calls[c].window_values[1] # calls[c].future_values[1]
        /\ calls[c].future_values[1] # calls[c].df_p[Len(calls[c].df_p)].qty * Scale


\* the observations followed by the predictions made before step i
SeriesBefore(c, i) == Observed(c) \o SubSeq(calls[c].future_values, 1, i - 1)

\* C13: the level component of step i is the mean of the last min(7, length)
\* entries of the observations followed by the predictions of steps 1..i-1:
\* of observations alone at step 1, of the 7 latest predictions alone from
\* step 8 on
C13_LevelFromWindow ==
    \A c \in Slots :
        InServingLoop(c) =>
            /\ Len(calls[c].comps) = calls[c].step
            /\ \A i \in 1..calls[c].step :
                  LET k == Min(LevelWindow, Len(SeriesBefore(c, i)))
                  IN  /\ calls[c].comps[i].level =
                            RDiv(SumSeq(LastK(SeriesBefore(c, i), k)), k)
                      /\ (i = 1) =>
                            calls[c].comps[i].level =
                                RDiv(SumSeq(LastK(Observed(c), k)), k)
                      /\ (i > LevelWindow) =>
                            calls[c].comps[i].level =
                                RDiv(SumSeq(SubSeq(calls[c].future_values,
                                                   i - LevelWindow, i - 1)), LevelWindow)

\* a call past step 8 whose level moved with its own predictions: the level
\* of step 2 differs from the seed's, the level of step 8 from both, and no
\* observation is among the last 7 window entries any more
C13_Witness ==
    \E c \in Slots :
        /\ InServingLoop(c)
        /\ calls[c].step > LevelWindow
        /\ calls[c].comps[2].level # calls[c].comps[1].level
        /\ calls[c].comps[LevelWindow + 1].level # calls[c].comps[1].level
        /\ calls[c].comps[LevelWindow + 1].level # calls[c].comps[2].level
        /\ LastK(calls[c].window_values, LevelWindow)
             = LastK(calls[c].future_values, LevelWindow)


RECURSIVE GCD(_, _)
GCD(a, b) == IF b = 0 THEN a ELSE GCD(b, a % b)
\* the fractions an / ad and bn / bd are equal (ad > 0, bd > 0)
FracEq(an, ad, bn, bd) ==
    LET ga == GCD(Abs(an), ad)
        gb == GCD(Abs(bn), bd)
    IN  an \div ga = bn \div gb /\ ad \div ga = bd \div gb

\* the line of least squares through y at x = 0..k-1 is the one through the
\* centroid with slope sum(c * y) / sum(c * x), c = x - mean(x); with c
\* doubled to stay in the integers, fit is that line when its slope is
\* Scy / Scx and its value at x = k-1 is mean(y) + slope * (k-1) / 2
IsLeastSquaresFit(fit, y) ==
    LET k   == Len(y)
        c   == [i \in 1..k |-> 2 * (i - 1) - (k - 1)]
        Sy  == SumFn(y, k)
        Scy == SumFn([i \in 1..k |-> c[i] * y[i]], k)
        Scx == SumFn([i \in 1..k |-> c[i] * (i - 1)], k)
    IN  /\ fit.den > 0
        /\ FracEq(fit.slope_num, fit.den, Scy, Scx)
        /\ FracEq(fit.level_num, fit.den, 2 * Sy * Scx + Scy * k * (k - 1), 2 * k * Scx)

C14_Fit ==
    \A c \in Slots :
        InServingLoop(c) =>
            LET qty == Qtys(calls[c].df_p)
                k   == Min(Len(qty), TrendWindow)
                fit == calls[c].est.trend
            IN  /\ IsLeastSquaresFit(fit, LastK(qty, k))
                /\ \A s \in 1..calls[c].step :
                      calls[c].comps[s].trend =
                          ToFx(fit.level_num + fit.slope_num * s, fit.den)

\* C14: the trend of a call is the least-squares line through its last
\* min(n, 90) observed quantities at indices 0..k-1, the trend component of
\* step s is that line's value at k-1 plus slope * s, and no step of the
\* call changes the fit
C14_TrendFittedOnce ==
    /\ []C14_Fit
    /\ [][\A c \in Slots :
             (InServingLoop(c) /\ calls'[c].pc \in {"stepping", "done", "responded"}) =>
                 /\ calls'[c].est = calls[c].est
                 /\ calls'[c].df_p = calls[c].df_p]_vars

\* a call on a history longer than the trend window, two steps in: the fit
\* has a slope and is not the line through the whole history
C14_Witness ==
    \E c \in Slots :
        /\ InServingLoop(c)
        /\ Len(calls[c].df_p) > TrendWindow
        /\ calls[c].step >= 2
        /\ calls[c].comps[2].trend # calls[c].comps[1].trend
        /\ ~IsLeastSquaresFit(calls[c].est.trend, Qtys(calls[c].df_p))


\* the call in slot c passed the checks of simple_forecast
InAltLoop(c) == Alt(c) /\ calls[c].est.kind = "alt"

\* in forecast_product every fused value is 0.4 * level + 0.4 * trend +
\* 0.2 * season, season the weekday's mean
ServingFusion ==
    \A c \in Slots :
        InServingLoop(c) =>
            \A i \in 1..calls[c].step :
                LET k == calls[c].comps[i]
                IN  calls[c].fused[i] =
                        RDiv(WLevel * k.level + WTrend * k.trend + WSeason * k.season,
                             WeightDen)

\* C15 as stated: in simple_forecast every fused value, before the clip, is
\* 0.5 * level + 0.3 * trend + 0.2 * season, season read as the weekday's
\* mean or as its deviation from the overall mean
C15_WeightsInOrder ==
    /\ ServingFusion
    /\ \A c \in Slots :
          InAltLoop(c) =>
              \A i \in 1..calls[c].step :
                  LET k == calls[c].comps[i]
                  IN  \E season \in {k.dow_mean, k.seasonal_adj} :
                          k.raw = RDiv(AltWTrend * k.level_pred + AltWLevel * k.trend_pred
                                         + AltWLast * season, WeightDen)

\* C15, amended: each weight triple sums to 1; forecast_product fuses
\* 0.4 * level + 0.4 * trend + 0.2 * season; simple_forecast fuses, before the
\* clip, 0.5 * trend + 0.3 * (level + seasonal deviation) + 0.2 * last
\* observed quantity, level the mean of the last 7 observations
C15_FusionAsCoded ==
    /\ WLevel + WTrend + WSeason = WeightDen
    /\ AltWTrend + AltWLevel + AltWLast = WeightDen
    /\ ServingFusion
    /\ \A c \in Slots :
          InAltLoop(c) =>
              \A i \in 1..calls[c].step :
                  LET k   == calls[c].comps[i]
                      n   == Len(calls[c].df_p)
                      w   == Min(AltLevelWindow, n)
                  IN  /\ k.raw = RDiv(AltWTrend * k.trend_pred
                                        + AltWLevel * (k.level_pred + k.seasonal_adj)
                                        + AltWLast * k.last_val, WeightDen)
                      /\ k.last_val = calls[c].df_p[n].qty * Scale
                      /\ k.level_pred = RDiv(SumSeq(LastK(Observed(c), w)), w)
                      /\ k.seasonal_adj = k.dow_mean - calls[c].est.global_mean
                      /\ calls[c].fused[i] \in {k.raw,
                             calls[c].est.global_mean - ClampK * calls[c].est.vol,
                             calls[c].est.global_mean + ClampK * calls[c].est.vol}

\* a simple_forecast call one step in whose trend, level and last value all
\* differ, with a seasonal deviation, and whose fused value is not the one
\* the weights give in the order level, trend, seasonality
C15_Witness ==
    \E c \in Slots :
        /\ InAltLoop(c) /\ calls[c].step >= 1
        /\ LET k == calls[c].comps[1]
           IN  /\ k.trend_pred # k.level_pred
               /\ k.level_pred # k.last_val
               /\ k.seasonal_adj # 0
               /\ \A season \in {k.dow_mean, k.seasonal_adj} :
                     k.raw # RDiv(AltWTrend * k.level_pred + AltWLevel * k.trend_pred
                                    + AltWLast * season, WeightDen)


\* the rows a simple_forecast call keeps of the caller's frame
KeptRows(c) == SelectSeq(calls[c].pdf, LAMBDA r : r.date # BadDate /\ r.date # NaT)
\* the invocation in slot c is past its checks
Checked(c) == calls[c].pc \notin {"idle", "called"}
\* the call in slot c has neither failed nor reported an error
NoErrorSurfaced(c) ==
    /\ calls[c].pc \in {"initialized", "stepping", "done", "responded"}
    /\ calls[c].error = ""
    /\ (calls[c].pc = "responded") => calls[c].status = 200
    /\ (calls[c].pc \in {"done", "responded"}) =>
          Len(calls[c].future_values) = calls[c].horizon

\* C16: a call whose history passed the length check returns a forecast and
\* no error; the seasonality value of a future weekday without observation
\* is the mean of the whole series; the trend of a single point, or of
\* points that all share one date, has slope 0 and the level of the data
C16_LocalRecovery ==
    /\ \A c \in Slots :
          (Serving(c) /\ Checked(c) /\ Len(df[calls[c].pid]) >= MinHistory) =>
              /\ NoErrorSurfaced(c)
              /\ \A i \in 1..calls[c].step :
                    LET rows   == calls[c].df_p
                        bucket == SelectSeq(rows, LAMBDA r :
                                      r.date % DaysPerWeek = calls[c].future_dates[i] % DaysPerWeek)
                    IN  calls[c].comps[i].season =
                            IF bucket = <<>>
                            THEN ToFx(SumSeq(Qtys(rows)), Len(rows))
                            ELSE ToFx(SumSeq(Qtys(bucket)), Len(bucket))
    /\ \A c \in Slots :
          (Alt(c) /\ Checked(c) /\ Len(KeptRows(c)) >= DegradedMin) =>
              /\ NoErrorSurfaced(c)
              /\ (\A i \in 1..Len(KeptRows(c)) : KeptRows(c)[i].date = KeptRows(c)[1].date) =>
                    /\ calls[c].est.trend.slope_num = 0
                    /\ \A i \in 1..calls[c].step :
                          calls[c].comps[i].trend_pred =
                              ToFx(SumSeq(Qtys(KeptRows(c))), Len(KeptRows(c)))
    /\ \A p \in ProductIds : \A i \in 1..Len(df[p]) :
          ComputeTrend(<<df[p][i].qty>>, TrendWindow)
              = [slope_num |-> 0, level_num |-> df[p][i].qty, den |-> 1]

\* the endpoint answered 200 for a history with no observation on one
\* weekday: the first forecast day fell on that weekday and took the mean
\* of the whole series, which no weekday's mean equals
C16_Witness ==
    \E c \in Slots :
        /\ InServingLoop(c) /\ calls[c].pc = "responded" /\ calls[c].status = 200
        /\ calls[c].step >= 1
        /\ calls[c].future_dates[1] % DaysPerWeek
              \notin {calls[c].df_p[i].date % DaysPerWeek : i \in 1..Len(calls[c].df_p)}
        /\ calls[c].comps[1].season = calls[c].est.overall_mean
        /\ \A d \in DOMAIN calls[c].est.dow_means :
              calls[c].est.dow_means[d] # calls[c].est.overall_mean


\* C17: the series the estimators of a call run on holds no row with an
\* unparsable date, is in ascending date order and has at most one row per
\* date
C17_SeriesValidated ==
    \A c \in Slots :
        (calls[c].est.kind # "none") =>
            LET rows == calls[c].df_p
            IN  /\ \A i \in 1..Len(rows) : rows[i].date \notin {NaT, BadDate}
                /\ \A i \in 1..(Len(rows) - 1) : rows[i].date <= rows[i + 1].date
                /\ \A i, j \in 1..Len(rows) : (i # j) => rows[i].date # rows[j].date

=============================================================================
